---------------------------- MODULE Spec2Model ----------------------------
(***************************************************************************)
(* Model of src/thermal_pipeline_hottest.py: the hotspot detection          *)
(* pipeline (gaussian_smooth, gradient, percentile threshold,               *)
(* binary_morphology, label_components, remove_small_components, region     *)
(* analysis with ring background, ranking).                                 *)
(*                                                                         *)
(* A grid is a sequence of rows, each row a sequence of cells.  The code's  *)
(* pixel (r, c), 0-based, is cell g[r+1][c+1]; every coordinate in the      *)
(* model is the code's 0-based coordinate.                                  *)
(***************************************************************************)
EXTENDS Integers, Sequences, FiniteSets, TLC

\* ------------------------------------------------------------------ bounds
\* Side of the square grids on which the whole pipeline is run.
GridSide == 9
\* Number of rows of the grids on which every boolean mask is enumerated;
\* these grids have three columns.
MaskSide == 3

\* ------------------------------------------------------------- grid basics
\* A function on 1 .. n as the tuple of its values.
Tup(f) == f \o <<>>
Hh(g) == Len(g)
Ww(g) == Len(g[1])
Px(g, r, c) == g[r + 1][c + 1]
SetPx(g, r, c, v) == [g EXCEPT ![r + 1][c + 1] = v]
Pixels(g) == (0 .. Hh(g) - 1) \X (0 .. Ww(g) - 1)
InGrid(g, r, c) == 0 <= r /\ r < Hh(g) /\ 0 <= c /\ c < Ww(g)
ConstGrid(h, w, v) == Tup([i \in 1 .. h |-> Tup([j \in 1 .. w |-> v])])
\* The pixels of a mask that are true / of a label map that carry lab.
TruePixels(mask) == {p : p \in {q \in Pixels(mask) : Px(mask, q[1], q[2])}}
PixelsOf(lbl, l) == {p : p \in {q \in Pixels(lbl) : Px(lbl, q[1], q[2]) = l}}
\* Row-major position of a pixel: the order of the code's nested r, c loops
\* and of numpy's argwhere / boolean indexing.
Raster(g, p) == p[1] * Ww(g) + p[2]
MinRaster(g, S) == CHOOSE p \in S : \A q \in S : Raster(g, p) <= Raster(g, q)


\* ------------------------------------------------------------------- state
VARIABLES
    SCIPY_AVAILABLE,   \* module global set by the import at lines 33-37
    T, T_frac,         \* the temperature grid handed to hotspot_detection:
                       \* cell (r, c) holds T[r][c] + T_frac * 2^-46 degrees
    gaussian_sigma, grad_pctl, region_min_area, ring_width,   \* its parameters
    pc,                \* the stage hotspot_detection has completed
    T_s, G_s, tau, M0, \* smoothed grid, gradient magnitude, threshold, candidates
    M,                 \* mask after binary_morphology
    labeled,           \* first label map
    M_clean,           \* mask after remove_small_components
    labeled_clean, nlab,   \* second label map and its count
    lab, regions,      \* the analysis loop's variable and list
    ring,              \* the loop's local `ring` (line 330), as last computed
    regions_sorted,    \* the ranked list that is returned
    frame,             \* label_components, lines 143-159, while it runs: its
                       \* locals labeled, current, stack, r, c, rr, cc and
                       \* the position dir in the offset list of line 154
    pushed             \* history: how many times each pixel was put on the stack

\* The state of a running flood fill.
floodVars == <<frame, pushed>>

vars == <<SCIPY_AVAILABLE, T, T_frac, gaussian_sigma, grad_pctl, region_min_area,
          ring_width, pc, T_s, G_s, tau, M0, M, labeled, M_clean,
          labeled_clean, nlab, lab, regions, ring, regions_sorted, floodVars>>

\* Value of a local that has not been assigned yet.
None == <<>>

\* label_components is not running: it has no locals.
NoFrame == [at |-> "none"]

\* -------------------------------------------------------- label_components
\* A flood fill that never looks to the left.
DIRSNoLeft == <<<<1, 0>>, <<-1, 0>>, <<0, 1>>>>

\* The neighbour offsets of the flood fill, in the order the code tries them.
DIRS == <<<<1, 0>>, <<-1, 0>>, <<0, 1>>, <<0, -1>>>>

\* Lines 154-158 for the popped pixel (rr, cc): the directions i..4 in turn.
\* st = [labeled, stack]; a neighbour inside the grid that is true and still
\* unlabeled gets the label first and is pushed second.
RECURSIVE FloodVisit(_, _, _, _, _, _)
FloodVisit(mask, st, current, rr, cc, i) ==
    IF i > Len(DIRS) THEN st
    ELSE LET nr == rr + DIRS[i][1]
             nc == cc + DIRS[i][2]
         IN IF InGrid(mask, nr, nc) /\ Px(mask, nr, nc) /\ Px(st.labeled, nr, nc) = 0
            THEN FloodVisit(mask,
                            [labeled |-> SetPx(st.labeled, nr, nc, current),
                             stack |-> Append(st.stack, <<nr, nc>>)],
                            current, rr, cc, i + 1)
            ELSE FloodVisit(mask, st, current, rr, cc, i + 1)

\* One iteration of `while stack` (lines 152-158): pop the last pixel, visit
\* its four neighbours.
FloodPop(mask, st, current) ==
    LET top == st.stack[Len(st.stack)]
    IN FloodVisit(mask,
                  [labeled |-> st.labeled,
                   stack |-> SubSeq(st.stack, 1, Len(st.stack) - 1)],
                  current, top[1], top[2], 1)

\* The while loop, run until the stack is empty.
RECURSIVE FloodFill(_, _, _)
FloodFill(mask, st, current) ==
    IF st.stack = <<>> THEN st.labeled
    ELSE FloodFill(mask, FloodPop(mask, st, current), current)

\* The nested scan of lines 146-158 from raster position idx on.
RECURSIVE FloodScan(_, _, _, _)
FloodScan(mask, lbl, current, idx) ==
    IF idx >= Hh(mask) * Ww(mask) THEN <<lbl, current>>
    ELSE LET r == idx \div Ww(mask)
             c == idx % Ww(mask)
         IN IF Px(mask, r, c) /\ Px(lbl, r, c) = 0
            THEN FloodScan(mask,
                           FloodFill(mask,
                                     [labeled |-> SetPx(lbl, r, c, current + 1),
                                      stack |-> <<<<r, c>>>>],
                                     current + 1),
                           current + 1, idx + 1)
            ELSE FloodScan(mask, lbl, current, idx + 1)

\* Lines 143-159, the NumPy-only branch.
FloodLabel(mask) == FloodScan(mask, ConstGrid(Hh(mask), Ww(mask), 0), 0, 0)

\* The true pixels one up/down/left/right step away from a pixel of S.
Step4(mask, S) ==
    {q \in TruePixels(mask) :
        \/ <<q[1] + 1, q[2]>> \in S
        \/ <<q[1] - 1, q[2]>> \in S
        \/ <<q[1], q[2] + 1>> \in S
        \/ <<q[1], q[2] - 1>> \in S}

\* The maximal 4-connected set of true pixels that contains the true pixels S.
RECURSIVE Component(_, _)
Component(mask, S) ==
    LET bigger == {q : q \in S \cup Step4(mask, S)}
    IN IF bigger = S THEN S ELSE Component(mask, bigger)

\* scipy.ndimage.label with its default structuring element (line 139): the
\* 4-connected components, numbered in raster order of their first pixel.
RECURSIVE NdiLabelFrom(_, _, _, _)
NdiLabelFrom(mask, lbl, n, todo) ==
    IF todo = {} THEN <<lbl, n>>
    ELSE LET comp == Component(mask, {MinRaster(mask, todo)})
         IN NdiLabelFrom(mask,
                         Tup([i \in 1 .. Hh(mask) |-> Tup([j \in 1 .. Ww(mask) |->
                             IF <<i - 1, j - 1>> \in comp THEN n + 1 ELSE lbl[i][j]])]),
                         n + 1, todo \ comp)

NdiLabel(mask) ==
    NdiLabelFrom(mask, ConstGrid(Hh(mask), Ww(mask), 0), 0, TruePixels(mask))

\* label_components (lines 137-159): <<labeled, count>>.
label_components(mask) ==
    IF SCIPY_AVAILABLE THEN NdiLabel(mask) ELSE FloodLabel(mask)

\* ------------------------------------------------- remove_small_components
\* np.unique(labeled[mask]) (line 166): the positive labels that occur.
PositiveLabels(lbl) ==
    {Px(lbl, p[1], p[2]) : p \in {q \in Pixels(lbl) : Px(lbl, q[1], q[2]) > 0}}

\* A filter that leaves out `keep[0] = False`: the background counts as a
\* label like any other.
remove_small_keep0(lbl, min_area) ==
    LET kept == {l \in PositiveLabels(lbl) \cup {0} :
                    Cardinality(PixelsOf(lbl, l)) >= min_area}
    IN Tup([i \in 1 .. Hh(lbl) |-> Tup([j \in 1 .. Ww(lbl) |-> lbl[i][j] \in kept])])

\* A filter that keeps a component only when it is strictly larger than
\* min_area.
remove_larger_only(lbl, min_area) ==
    LET kept == {l \in PositiveLabels(lbl) :
                    Cardinality(PixelsOf(lbl, l)) > min_area}
    IN Tup([i \in 1 .. Hh(lbl) |-> Tup([j \in 1 .. Ww(lbl) |-> lbl[i][j] \in kept])])

\* Lines 162-171.  With no positive label the all-false `mask` is returned
\* (line 165); otherwise keep is the union of the labels with enough pixels.
remove_small_components(lbl, min_area) ==
    LET kept == {l \in PositiveLabels(lbl) :
                    Cardinality(PixelsOf(lbl, l)) >= min_area}
    IN Tup([i \in 1 .. Hh(lbl) |-> Tup([j \in 1 .. Ww(lbl) |-> lbl[i][j] \in kept])])

\* ------------------------------------------- maximum_filter, minimum_filter
Max(S) == CHOOSE x \in S : \A y \in S : y <= x
Min(S) == CHOOSE x \in S : \A y \in S : x <= y
Clamp(i, lo, hi) == IF i < lo THEN lo ELSE IF i > hi THEN hi ELSE i

\* padded[r:r+k, c:c+k] of np.pad(arr, k // 2, mode='edge') (lines 94-99): the
\* cells of arr the k x k window at (r, c) reads, a coordinate that falls
\* outside the grid reading the nearest edge cell.
Window(arr, size, r, c) ==
    LET pad == size \div 2
    IN {Px(arr, Clamp(r - pad + i, 0, Hh(arr) - 1), Clamp(c - pad + j, 0, Ww(arr) - 1)) :
            <<i, j>> \in (0 .. size - 1) \X (0 .. size - 1)}

\* Lines 90-101.
maximum_filter(arr, size) ==
    Tup([i \in 1 .. Hh(arr) |->
        Tup([j \in 1 .. Ww(arr) |-> Max(Window(arr, size, i - 1, j - 1))])])

\* Lines 104-114.
minimum_filter(arr, size) ==
    Tup([i \in 1 .. Hh(arr) |->
        Tup([j \in 1 .. Ww(arr) |-> Min(Window(arr, size, i - 1, j - 1))])])

\* mask.astype(int) and `... > 0`.
AsInt(mask) ==
    Tup([i \in 1 .. Hh(mask) |-> Tup([j \in 1 .. Ww(mask) |-> IF mask[i][j] THEN 1 ELSE 0])])
GtZero(arr) == Tup([i \in 1 .. Hh(arr) |-> Tup([j \in 1 .. Ww(arr) |-> arr[i][j] > 0])])

\* --------------------------------------------------- scipy.ndimage morphology
\* disk(r) of lines 120-122 and 178-179: the offsets within distance r.
Disk(r) == {d \in (-r .. r) \X (-r .. r) : d[1] * d[1] + d[2] * d[2] <= r * r}

\* ndi.binary_dilation(mask, structure=se), border_value 0: a pixel is set
\* when some offset of se leads to a true pixel inside the grid.
NdiDilation(mask, se) ==
    Tup([i \in 1 .. Hh(mask) |-> Tup([j \in 1 .. Ww(mask) |->
        \E d \in se : InGrid(mask, i - 1 + d[1], j - 1 + d[2])
                      /\ Px(mask, i - 1 + d[1], j - 1 + d[2])])])

\* ndi.binary_erosion(mask, structure=se), border_value 0: a pixel stays when
\* every offset of se leads to a true pixel; outside the grid counts as false.
NdiErosion(mask, se) ==
    Tup([i \in 1 .. Hh(mask) |-> Tup([j \in 1 .. Ww(mask) |->
        \A d \in se : InGrid(mask, i - 1 + d[1], j - 1 + d[2])
                      /\ Px(mask, i - 1 + d[1], j - 1 + d[2])])])

\* ndi.binary_closing(mask, structure=se): dilation, then erosion.
NdiClosing(mask, se) == NdiErosion(NdiDilation(mask, se), se)

Not(mask) == Tup([i \in 1 .. Hh(mask) |-> Tup([j \in 1 .. Ww(mask) |-> ~mask[i][j]])])
OnBorder(g, p) == p[1] = 0 \/ p[2] = 0 \/ p[1] = Hh(g) - 1 \/ p[2] = Ww(g) - 1

\* The false pixels of mask joined to the grid border by up/down/left/right
\* steps over false pixels.
OpenBackground(mask) ==
    Component(Not(mask), {p : p \in {q \in TruePixels(Not(mask)) : OnBorder(mask, q)}})

\* ndi.binary_fill_holes(mask), default structure: every false pixel that the
\* border does not reach over false pixels is set.
NdiFillHoles(mask) ==
    LET open == OpenBackground(mask)
    IN Tup([i \in 1 .. Hh(mask) |->
           Tup([j \in 1 .. Ww(mask) |-> <<i - 1, j - 1>> \notin open])])

\* -------------------------------------------------------- binary_morphology
\* Lines 117-134.
binary_morphology(mask) ==
    IF SCIPY_AVAILABLE
    THEN LET closed == NdiClosing(mask, Disk(2))
             dilated == NdiDilation(closed, Disk(1))
         IN NdiFillHoles(dilated)
    ELSE LET eroded == GtZero(minimum_filter(AsInt(mask), 3))
             dilated == GtZero(maximum_filter(AsInt(eroded), 3))
         IN GtZero(maximum_filter(AsInt(dilated), 3))

\* -------------------------------------------------------------- dilate_mask
\* The loop of lines 183-184 with n iterations left.
RECURSIVE DilateTimes(_, _)
DilateTimes(out, n) ==
    IF n = 0 THEN out ELSE DilateTimes(GtZero(maximum_filter(AsInt(out), 3)), n - 1)

\* Lines 174-185.
dilate_mask(mask, radius) ==
    IF radius <= 0 THEN mask
    ELSE IF SCIPY_AVAILABLE THEN NdiDilation(mask, Disk(radius))
    ELSE DilateTimes(mask, radius)

\* ---------------------------------------------------------- gaussian_smooth
\* Real numbers are held in fixed point.  A smoothed temperature is held in
\* hundredths; a kernel weight exp(-x^2 / (2 sigma^2)) in thousandths.  NaN is
\* the one negative cell value: every number the pipeline computes from a
\* grid of non-negative temperatures is non-negative.
NaN == -1
NaNGrid(g) == ConstGrid(Hh(g), Ww(g), NaN)

\* exp(-x^2 / 2) in thousandths for x = 0 .. 4: the weights for sigma = 1 and
\* sigma = -1, the two non-zero values of gaussian_sigma the model draws.
GaussTable == <<1000, 607, 135, 11, 0>>
GaussWeight(x) == GaussTable[(IF x < 0 THEN -x ELSE x) + 1]
\* Sum of the weights of the kernel taps x .. radius.
RECURSIVE WeightSum(_, _)
WeightSum(x, radius) ==
    IF x > radius THEN 0 ELSE GaussWeight(x) + WeightSum(x + 1, radius)
KernelSum(radius) == WeightSum(-radius, radius)

\* Index i of an axis of length n under scipy's mode='reflect'
\* (d c b a | a b c d | d c b a).
RECURSIVE Reflect(_, _)
Reflect(i, n) ==
    IF i < 0 THEN Reflect(-i - 1, n)
    ELSE IF i >= n THEN Reflect(2 * n - 1 - i, n)
    ELSE i

\* The cell that tap x of a 1-D pass along axis reads for pixel (r, c) (axis 0
\* runs down the rows): outside the grid the cell is found by reflection
\* (scipy) or is 0 (np.convolve(..., mode="same"), lines 85-86).
ConvCell(g, axis, reflect, r, c, x) ==
    LET n == IF axis = 0 THEN Hh(g) ELSE Ww(g)
        k == (IF axis = 0 THEN r ELSE c) + x
        kk == IF reflect THEN Reflect(k, n) ELSE k
    IN IF kk < 0 \/ kk >= n THEN 0
       ELSE IF axis = 0 THEN Px(g, kk, c) ELSE Px(g, r, kk)

\* Weighted sum of the taps x .. radius for pixel (r, c).
RECURSIVE ConvSum(_, _, _, _, _, _, _)
ConvSum(g, radius, axis, reflect, r, c, x) ==
    IF x > radius THEN 0
    ELSE GaussWeight(x) * ConvCell(g, axis, reflect, r, c, x)
         + ConvSum(g, radius, axis, reflect, r, c, x + 1)

\* One 1-D pass of the normalised kernel along an axis.
Convolve(g, radius, axis, reflect) ==
    Tup([i \in 1 .. Hh(g) |-> Tup([j \in 1 .. Ww(g) |->
        ConvSum(g, radius, axis, reflect, i - 1, j - 1, -radius) \div KernelSum(radius)])])

ToFixed(g) == Tup([i \in 1 .. Hh(g) |-> Tup([j \in 1 .. Ww(g) |-> 100 * g[i][j]])])

\* ndi.gaussian_filter(arr, sigma) (line 79): radius int(4 sigma + 0.5), axis 0
\* then axis 1, mode='reflect'; an axis whose sigma is not above 1e-15 is
\* skipped, so sigma <= 0 copies the input.
NdiGaussian(arr, sigma) ==
    IF sigma <= 0 THEN ToFixed(arr)
    ELSE Convolve(Convolve(ToFixed(arr), 4 * sigma, 0, TRUE), 4 * sigma, 1, TRUE)

\* Lines 81-87: radius max(1, ceil(3 sigma)); sigma = 0 divides by zero
\* inside np.exp, the kernel is NaN and so is every smoothed cell.  The pass
\* keeps the grid's shape because the model's grids are at least as long as
\* the kernel (2 * radius + 1 <= GridSide).
FallbackGaussian(arr, sigma) ==
    LET radius == IF 3 * sigma > 1 THEN 3 * sigma ELSE 1
    IN IF sigma = 0 THEN NaNGrid(arr)
       ELSE Convolve(Convolve(ToFixed(arr), radius, 1, FALSE), radius, 0, FALSE)

\* Lines 77-87.
gaussian_smooth(arr, sigma) ==
    IF SCIPY_AVAILABLE THEN NdiGaussian(arr, sigma) ELSE FallbackGaussian(arr, sigma)

\* ----------------------------------------------------------------- gradient
\* np.gradient along one axis, times 2: f[i+1] - f[i-1] inside, the one-sided
\* difference (doubled) on the first and last cell.
Diff2(g, r, c, axis) ==
    LET n == IF axis = 0 THEN Hh(g) ELSE Ww(g)
        i == IF axis = 0 THEN r ELSE c
        f(k) == IF axis = 0 THEN Px(g, k, c) ELSE Px(g, r, k)
    IN IF i = 0 THEN 2 * (f(1) - f(0))
       ELSE IF i = n - 1 THEN 2 * (f(n - 1) - f(n - 2))
       ELSE f(i + 1) - f(i - 1)

\* Lines 304-305.  The cell holds 4 * (gxs^2 + gys^2), the square of twice
\* the magnitude: the threshold only compares magnitudes, and squaring keeps
\* their order.  A NaN operand gives NaN.
GradientMagnitude(g) ==
    Tup([i \in 1 .. Hh(g) |-> Tup([j \in 1 .. Ww(g) |->
        IF g[i][j] = NaN THEN NaN
        ELSE LET gy == Diff2(g, i - 1, j - 1, 0)
                 gx == Diff2(g, i - 1, j - 1, 1)
             IN gx * gx + gy * gy])])

\* ------------------------------------------------------------ np.percentile
\* The values of the cells P of g, as the set of their distinct values and
\* the k-th smallest (k from 0) of the values counted with multiplicity.
ValuesAt(g, P) == {Px(g, p[1], p[2]) : p \in P}
OrderStat(g, P, k) ==
    CHOOSE v \in ValuesAt(g, P) :
        /\ Cardinality({p \in P : Px(g, p[1], p[2]) < v}) <= k
        /\ k < Cardinality({p \in P : Px(g, p[1], p[2]) <= v})

\* np.percentile raises ValueError for q outside [0, 100].
PercentileRaises(q) == q < 0 \/ q > 100

\* np.percentile(G_s, q) (line 306) for q in [0, 100]: linear interpolation
\* between the ranks around q/100 * (n - 1).  The result
\* lo + frac/100 * (hi - lo) is kept as the triple; a NaN cell gives NaN.
percentile(g, q) ==
    LET n == Hh(g) * Ww(g)
        pos == q * (n - 1)
        k == pos \div 100
        frac == pos % 100
    IN IF NaN \in ValuesAt(g, Pixels(g)) THEN [lo |-> NaN, hi |-> NaN, frac |-> 0]
       ELSE [lo |-> OrderStat(g, Pixels(g), k),
             hi |-> OrderStat(g, Pixels(g), IF frac = 0 THEN k ELSE k + 1),
             frac |-> frac]

\* v >= t for a threshold t that percentile returned.  With frac > 0 and
\* lo < hi the threshold lies strictly between lo and hi, and no cell value
\* does; otherwise it is lo.  Every comparison with NaN is false.
GeqTau(v, t) ==
    IF t.lo = NaN \/ v = NaN THEN FALSE
    ELSE IF t.frac = 0 \/ t.lo = t.hi THEN v >= t.lo
    ELSE v >= t.hi

\* Line 307: M0 = G_s >= tau.
Threshold(g, t) == Tup([i \in 1 .. Hh(g) |-> Tup([j \in 1 .. Ww(g) |-> GeqTau(g[i][j], t)])])

\* ---------------------------------------------------------- region analysis
\* A temperature is the float64 number w + u * 2^-48, kept as [w, u]: w is
\* its whole part, 0 or at least 16, and u counts the units of 2^-48 above it.
\* Between 2^k and 2^(k+1) float64 numbers are 2^(k-52) apart: Ulp(w) is that
\* distance in units of 2^-48 for the numbers whose whole part is w.
RECURSIVE Ulp(_)
Ulp(w) == IF w < 32 THEN 1 ELSE 2 * Ulp(w \div 2)

\* b rounded to the nearest multiple of unit, a tie going to the multiple
\* whose quotient is even (round-half-to-even, IEEE 754).
RoundEven(b, unit) ==
    LET q == b \div unit
        r == b % unit
    IN IF 2 * r < unit \/ (2 * r = unit /\ q % 2 = 0)
       THEN q * unit
       ELSE (q + 1) * unit

\* The float64 sum x + y: the exact sum, rounded.
FAdd(x, y) ==
    [w |-> x.w + y.w, u |-> RoundEven(x.u + y.u, Ulp(x.w + y.w))]

FZero == [w |-> 0, u |-> 0]

\* The cell (r, c) of the grid as the program reads it: every cell of a run
\* lies frac units of 2^-46 above the whole number the model's grid holds.
FCell(g, frac, r, c) == [w |-> Px(g, r, c), u |-> 4 * frac]

\* The raster positions of the cells P of g in increasing order: the rows of
\* np.argwhere (line 320).
Coords(g, P) ==
    SelectSeq(Tup([k \in 1 .. Hh(g) * Ww(g) |-> k - 1]),
              LAMBDA idx : <<idx \div Ww(g), idx % Ww(g)>> \in P)

\* T[coords[:, 0], coords[:, 1]] (line 322): the cells P of g in that order.
ValsAt(g, frac, coords) ==
    Tup([k \in 1 .. Len(coords) |->
            FCell(g, frac, coords[k] \div Ww(g), coords[k] % Ww(g))])

Vals(g, frac, P) == ValsAt(g, frac, Coords(g, {p : p \in P}))

\* acc + vals[i] + vals[i + step] + ..., count terms, added one by one.
RECURSIVE AddStrided(_, _, _, _, _)
AddStrided(vals, i, step, count, acc) ==
    IF count = 0 THEN acc
    ELSE AddStrided(vals, i + step, step, count - 1, FAdd(acc, vals[i]))

\* numpy's pairwise summation of the n numbers vals[lo], ..., the loop
\* np.add.reduce runs for float64: fewer than 8 numbers are added one by
\* one; up to 128 are added in 8 interleaved partial sums, which are then
\* combined, and the n % 8 last numbers added one by one; more are split in
\* two parts, the first a multiple of 8 long.
RECURSIVE PairwiseSum(_, _, _)
PairwiseSum(vals, lo, n) ==
    IF n < 8 THEN AddStrided(vals, lo, 1, n, FZero)
    ELSE IF n <= 128
    THEN LET blocks == n \div 8
             r == [k \in 0 .. 7 |-> AddStrided(vals, lo + k, 8, blocks, FZero)]
             res == FAdd(FAdd(FAdd(r[0], r[1]), FAdd(r[2], r[3])),
                         FAdd(FAdd(r[4], r[5]), FAdd(r[6], r[7])))
         IN AddStrided(vals, lo + 8 * blocks, 1, n % 8, res)
    ELSE LET n2 == (n \div 2) - ((n \div 2) % 8)
         IN FAdd(PairwiseSum(vals, lo, n2), PairwiseSum(vals, lo + n2, n - n2))

\* np.mean(vals) (line 326) is the float64 quotient of this sum by the
\* number of values.
FSum(vals) == PairwiseSum(vals, 1, Len(vals))

\* The float64 quotient sum / n is at most x.  Rounding keeps the order, so
\* a sum whose whole part is below n * x.w gives a quotient below x, and one
\* above gives a quotient above; with equal whole parts the quotient is
\* x.w + (sum.u / n) * 2^-48, rounded.
MeanLeq(sum, n, x) ==
    IF sum.w # n * x.w THEN sum.w < n * x.w
    ELSE RoundEven(sum.u, n * Ulp(x.w)) \div n <= x.u

\* np.median over the cells P of g (P not empty): the middle value, or the
\* mean of the two middle values.  The model's temperatures are even, so the
\* mean of two of them is a whole number.
Median(g, P) ==
    LET n == Cardinality(P)
    IN IF n % 2 = 1 THEN OrderStat(g, P, n \div 2)
       ELSE (OrderStat(g, P, n \div 2 - 1) + OrderStat(g, P, n \div 2)) \div 2

\* mask_R = (labeled_clean == lab) (line 328).
MaskOf(lbl, l) ==
    Tup([i \in 1 .. Hh(lbl) |-> Tup([j \in 1 .. Ww(lbl) |-> lbl[i][j] = l])])

\* Lines 329-330: the dilated region without the region itself.
RingOf(mask_R, width) ==
    LET dilated_R == dilate_mask(mask_R, width)
    IN Tup([i \in 1 .. Hh(mask_R) |-> Tup([j \in 1 .. Ww(mask_R) |->
           dilated_R[i][j] /\ ~mask_R[i][j]])])

\* Lines 331-336 for the pixel sets of the ring and of ~mask_R.  The grid
\* holds no NaN, so np.all(np.isnan(ring_vals)) is false on a non-empty ring.
BackgroundOf(grid, ringPx, outside) ==
    IF ringPx = {}
    THEN IF outside # {} THEN Median(grid, outside) ELSE Median(grid, Pixels(grid))
    ELSE Median(grid, ringPx)

Background(grid, mask_R, ringMask) ==
    BackgroundOf(grid, TruePixels(ringMask), TruePixels(Not(mask_R)))

\* Lines 338-347: the region's record.  Tmax_C and Tbg_C hold the whole part
\* of the temperature, whose fraction is the one every cell has; their
\* difference is a whole number, which float64 holds exactly.  Tmean_C is
\* the float64 quotient sum / n, kept as its two operands.
RegionRecord(l, area, Tmax, sum, Tbg, at) ==
    [ID |-> l,
     area_px |-> area,
     Tmax_C |-> Tmax,
     Tmean_C |-> [sum |-> sum, n |-> area],
     Tbg_C |-> Tbg,
     DeltaT_C |-> Tmax - Tbg,
     row |-> at[1],
     col |-> at[2]]

\* np.argmax (line 324): the first pixel, in row-major order, that holds the
\* maximum.
ArgMax(grid, coords, Tmax) ==
    MinRaster(grid, {p \in coords : Px(grid, p[1], p[2]) = Tmax})

\* Lines 320-347 for the pixels coords of label l and their maximum Tmax.
Measure(grid, frac, lbl, l, ringMask, coords, Tmax) ==
    RegionRecord(l, Cardinality(coords), Tmax, FSum(Vals(grid, frac, coords)),
                 Background(grid, MaskOf(lbl, l), ringMask),
                 ArgMax(grid, coords, Tmax))

\* Lines 317-347 for a label that has pixels and the ring computed for it.
Analyze(grid, frac, lbl, l, ringMask) ==
    Measure(grid, frac, lbl, l, ringMask, PixelsOf(lbl, l),
            Max(ValuesAt(grid, PixelsOf(lbl, l))))

\* ------------------------------------------------------------------ ranking
\* A sort key of -Tmax_C alone.
KeyLessTmaxOnly(a, b) == a.Tmax_C > b.Tmax_C

\* key(a) < key(b) for the sort key (-Tmax_C, -DeltaT_C) of line 349.
KeyLess(a, b) ==
    \/ a.Tmax_C > b.Tmax_C
    \/ a.Tmax_C = b.Tmax_C /\ a.DeltaT_C > b.DeltaT_C

\* x put into the sorted sequence s before the first element whose key is
\* greater, so behind every element of equal key (sorted() is stable).
Insert(s, x) ==
    LET later == {i \in 1 .. Len(s) : KeyLess(x, s[i])}
        k == IF later = {} THEN Len(s) + 1 ELSE Min(later)
    IN SubSeq(s, 1, k - 1) \o <<x>> \o SubSeq(s, k, Len(s))

RECURSIVE SortFrom(_, _, _)
SortFrom(s, out, i) ==
    IF i > Len(s) THEN out ELSE SortFrom(s, Insert(out, s[i]), i + 1)

\* sorted(regions, key=...) (line 349).
Sorted(s) == SortFrom(s, <<>>, 1)

\* -------------------------------------------------------- hotspot_detection
\* Line 303.
Smooth ==
    /\ pc = "start"
    /\ T_s' = gaussian_smooth(T, gaussian_sigma)
    /\ pc' = "smoothed"
    /\ UNCHANGED <<floodVars, SCIPY_AVAILABLE, T, T_frac, gaussian_sigma, grad_pctl,
                   region_min_area,
                   ring_width, G_s, tau, M0, M, labeled, M_clean, labeled_clean,
                   nlab, lab, regions, ring, regions_sorted>>

\* Lines 304-305.
Gradient ==
    /\ pc = "smoothed"
    /\ G_s' = GradientMagnitude(T_s)
    /\ pc' = "gradient"
    /\ UNCHANGED <<floodVars, SCIPY_AVAILABLE, T, T_frac, gaussian_sigma, grad_pctl,
                   region_min_area,
                   ring_width, T_s, tau, M0, M, labeled, M_clean, labeled_clean,
                   nlab, lab, regions, ring, regions_sorted>>

\* Lines 306-307.  np.percentile raises ValueError for a percentile outside
\* [0, 100]; nothing catches it and the call ends there.
Thresholding ==
    /\ pc = "gradient"
    /\ IF PercentileRaises(grad_pctl)
       THEN /\ pc' = "ValueError"
            /\ UNCHANGED <<tau, M0>>
       ELSE /\ tau' = percentile(G_s, grad_pctl)
            /\ M0' = Threshold(G_s, tau')
            /\ pc' = "thresholded"
    /\ UNCHANGED <<floodVars, SCIPY_AVAILABLE, T, T_frac, gaussian_sigma, grad_pctl,
                   region_min_area,
                   ring_width, T_s, G_s, M, labeled, M_clean, labeled_clean,
                   nlab, lab, regions, ring, regions_sorted>>

\* Line 309.
Morphology ==
    /\ pc = "thresholded"
    /\ M' = binary_morphology(M0)
    /\ pc' = "morphed"
    /\ UNCHANGED <<floodVars, SCIPY_AVAILABLE, T, T_frac, gaussian_sigma, grad_pctl,
                   region_min_area,
                   ring_width, T_s, G_s, tau, M0, labeled, M_clean, labeled_clean,
                   nlab, lab, regions, ring, regions_sorted>>

\* Line 310.
Label ==
    /\ pc = "morphed"
    /\ labeled' = label_components(M)[1]
    /\ pc' = "labeled"
    /\ UNCHANGED <<floodVars, SCIPY_AVAILABLE, T, T_frac, gaussian_sigma, grad_pctl,
                   region_min_area,
                   ring_width, T_s, G_s, tau, M0, M, M_clean, labeled_clean,
                   nlab, lab, regions, ring, regions_sorted>>

\* Line 311.
Filter ==
    /\ pc = "labeled"
    /\ M_clean' = remove_small_components(labeled, region_min_area)
    /\ pc' = "filtered"
    /\ UNCHANGED <<floodVars, SCIPY_AVAILABLE, T, T_frac, gaussian_sigma, grad_pctl,
                   region_min_area,
                   ring_width, T_s, G_s, tau, M0, M, labeled, labeled_clean,
                   nlab, lab, regions, ring, regions_sorted>>

\* A pipeline without the second labeling: the kept pixels carry the labels
\* of the first one, the loop runs up to the largest of them.
RelabelStale ==
    /\ pc = "filtered"
    /\ labeled_clean' =
          Tup([i \in 1 .. Hh(labeled) |-> Tup([j \in 1 .. Ww(labeled) |->
              IF M_clean[i][j] THEN labeled[i][j] ELSE 0])])
    /\ nlab' = label_components(M)[2]
    /\ regions' = <<>>
    /\ lab' = 1
    /\ pc' = "relabeled"
    /\ UNCHANGED <<floodVars, SCIPY_AVAILABLE, T, T_frac, gaussian_sigma, grad_pctl,
                   region_min_area,
                   ring_width, T_s, G_s, tau, M0, M, labeled, M_clean, ring,
                   regions_sorted>>

\* Lines 312-316: the second labeling, the empty list, the loop's first label.
Relabel ==
    /\ pc = "filtered"
    /\ labeled_clean' = label_components(M_clean)[1]
    /\ nlab' = label_components(M_clean)[2]
    /\ regions' = <<>>
    /\ lab' = 1
    /\ pc' = "relabeled"
    /\ UNCHANGED <<floodVars, SCIPY_AVAILABLE, T, T_frac, gaussian_sigma, grad_pctl,
                   region_min_area,
                   ring_width, T_s, G_s, tau, M0, M, labeled, M_clean, ring,
                   regions_sorted>>

\* One iteration of the loop of lines 316-347; a label without pixels is
\* skipped (lines 318-319).
AnalyzeRegion ==
    /\ pc = "relabeled"
    /\ lab <= nlab
    /\ IF PixelsOf(labeled_clean, lab) = {}
       THEN UNCHANGED <<regions, ring>>
       ELSE /\ ring' = RingOf(MaskOf(labeled_clean, lab), ring_width)
            /\ regions' = Append(regions, Analyze(T, T_frac, labeled_clean, lab, ring'))
    /\ lab' = lab + 1
    /\ UNCHANGED <<floodVars, SCIPY_AVAILABLE, T, T_frac, gaussian_sigma, grad_pctl,
                   region_min_area,
                   ring_width, pc, T_s, G_s, tau, M0, M, labeled, M_clean,
                   labeled_clean, nlab, regions_sorted>>

\* Lines 349-350, once the loop has ended.
Rank ==
    /\ pc = "relabeled"
    /\ lab > nlab
    /\ regions_sorted' = Sorted(regions)
    /\ pc' = "done"
    /\ UNCHANGED <<floodVars, SCIPY_AVAILABLE, T, T_frac, gaussian_sigma, grad_pctl,
                   region_min_area,
                   ring_width, T_s, G_s, tau, M0, M, labeled, M_clean,
                   labeled_clean, nlab, lab, regions, ring>>

\* ------------------------------------------------------------------ inputs
\* The temperature grids the pipeline is run on: GridSide x GridSide, a
\* background of 20 with, for kind "left", the columns left of the middle one
\* at 22 and, for kind "right", the columns right of it at 22, and up to two
\* hot pixels, one at (2, 2) holding a, one at (GridSide - 3, GridSide - 3)
\* holding b; 0 stands for no hot pixel.
TGrid(kind, a, b) ==
    Tup([i \in 1 .. GridSide |-> Tup([j \in 1 .. GridSide |->
        IF a # 0 /\ i - 1 = 2 /\ j - 1 = 2 THEN a
        ELSE IF b # 0 /\ i - 1 = GridSide - 3 /\ j - 1 = GridSide - 3 THEN b
        ELSE IF kind = "left" /\ j - 1 < GridSide \div 2 THEN 22
        ELSE IF kind = "right" /\ j - 1 > GridSide \div 2 THEN 22
        ELSE 20])])

TGrids ==
    {TGrid(kind, a, b) : kind \in {"flat", "left", "right"},
                         a \in {0, 60, 80}, b \in {0, 80}}

\* The grids with the fraction their cells carry: whole numbers, and the
\* uniform grid a few units of 2^-46 above 20 as well.
Inputs == (TGrids \X {0}) \cup ({TGrid("flat", 0, 0)} \X {3, 5})

\* The parameter values the calls are made with, valid and invalid.
SigmaValues == {-1, 0, 1}
PctlValues == {-1, 0, 60, 90, 101}
MinAreaValues == {-1, 1, 8}
RingWidthValues == {-1, 0, 2}

\* A call of hotspot_detection about to run its first line.
Init ==
    /\ SCIPY_AVAILABLE \in BOOLEAN
    /\ \E input \in Inputs : T = input[1] /\ T_frac = input[2]
    /\ gaussian_sigma \in SigmaValues
    /\ grad_pctl \in PctlValues
    /\ region_min_area \in MinAreaValues
    /\ ring_width \in RingWidthValues
    /\ pc = "start"
    /\ T_s = None /\ G_s = None /\ tau = None /\ M0 = None /\ M = None
    /\ labeled = None /\ M_clean = None /\ labeled_clean = None
    /\ nlab = 0 /\ lab = 0 /\ regions = None /\ ring = None
    /\ regions_sorted = None
    /\ frame = NoFrame /\ pushed = None

Next ==
    \/ Smooth
    \/ Gradient
    \/ Thresholding
    \/ Morphology
    \/ Label
    \/ Filter
    \/ Relabel
    \/ AnalyzeRegion
    \/ Rank

Spec == Init /\ [][Next]_vars


\* --------------------------------------- labeling and filtering on any mask
\* Every boolean mask of MaskSide rows and three columns.
AllMasks ==
    {Tup([i \in 1 .. MaskSide |-> Tup(m[i])]) :
        m \in [1 .. MaskSide -> [1 .. 3 -> BOOLEAN]]}

\* hotspot_detection at line 310, the refined mask being any mask and the
\* minimum area any value up to the number of rows.
InitLabel ==
    /\ SCIPY_AVAILABLE \in BOOLEAN
    /\ M \in AllMasks
    /\ region_min_area \in 0 .. MaskSide
    /\ pc = "morphed"
    /\ T = None /\ T_frac = 0 /\ gaussian_sigma = 0 /\ grad_pctl = 0 /\ ring_width = 0
    /\ T_s = None /\ G_s = None /\ tau = None /\ M0 = None
    /\ labeled = None /\ M_clean = None /\ labeled_clean = None
    /\ nlab = 0 /\ lab = 0 /\ regions = None /\ ring = None
    /\ regions_sorted = None
    /\ frame = NoFrame /\ pushed = None

NextLabel ==
    \/ Label
    \/ Filter
    \/ Relabel

SpecLabel == InitLabel /\ [][NextLabel]_vars

\* ------------------------------------------------- morphology on any frame
\* The GridSide x GridSide mask that is true on the rectangle of the rows
\* lo .. hr and the columns lo .. hc except on its inside, t pixels away from
\* its sides.
FrameMask(lo, hr, hc, t) ==
    Tup([i \in 1 .. GridSide |-> Tup([j \in 1 .. GridSide |->
        /\ lo <= i - 1 /\ i - 1 <= hr /\ lo <= j - 1 /\ j - 1 <= hc
        /\ ~(/\ lo + t <= i - 1 /\ i - 1 <= hr - t
             /\ lo + t <= j - 1 /\ j - 1 <= hc - t)])])

FrameMasks ==
    {FrameMask(lo, hr, hc, t) : lo \in 0 .. 2,
                                hr \in GridSide - 3 .. GridSide - 1,
                                hc \in GridSide - 3 .. GridSide - 1,
                                t \in 1 .. 3}

\* hotspot_detection at line 309, the candidate mask being a frame.
InitMorph ==
    /\ SCIPY_AVAILABLE \in BOOLEAN
    /\ M0 \in FrameMasks
    /\ pc = "thresholded"
    /\ T = None /\ T_frac = 0 /\ gaussian_sigma = 0 /\ grad_pctl = 0
    /\ region_min_area = 0 /\ ring_width = 0
    /\ T_s = None /\ G_s = None /\ tau = None /\ M = None
    /\ labeled = None /\ M_clean = None /\ labeled_clean = None
    /\ nlab = 0 /\ lab = 0 /\ regions = None /\ ring = None
    /\ regions_sorted = None
    /\ frame = NoFrame /\ pushed = None

NextMorph == Morphology

SpecMorph == InitMorph /\ [][NextMorph]_vars

\* ------------------------------------- label_components, statement by statement
\* The variables of hotspot_detection that a call of label_components at
\* line 310 neither reads nor writes, with the mask M it reads.
callerVars == <<SCIPY_AVAILABLE, T, T_frac, gaussian_sigma, grad_pctl,
                region_min_area, ring_width, T_s, G_s, tau, M0, M, M_clean,
                labeled_clean, nlab, lab, regions, ring, regions_sorted>>

\* The test of line 156 on the neighbour (nr, nc).
Unlabeled(mask, lbl, nr, nc) ==
    InGrid(mask, nr, nc) /\ Px(mask, nr, nc) /\ Px(lbl, nr, nc) = 0

\* Line 155: the neighbour of the popped pixel in the direction reached.
Neighbour(f) == <<f.rr + DIRS[f.dir][1], f.cc + DIRS[f.dir][2]>>

\* The `for r` / `for c` loops of lines 146-147 move on to the next pixel.
ScanNext(f) ==
    IF f.c + 1 < Ww(M)
    THEN [f EXCEPT !.c = f.c + 1, !.at = "scan"]
    ELSE [f EXCEPT !.r = f.r + 1, !.c = 0, !.at = "scan"]

\* The pixel p has been put on the stack once more.
CountPush(p) == SetPx(pushed, p[1], p[2], Px(pushed, p[1], p[2]) + 1)

\* Lines 138-147 with SCIPY_AVAILABLE false: the call of line 310 starts
\* with a zero label map and the scan at pixel (0, 0).
FloodEnter ==
    /\ pc = "morphed" /\ ~SCIPY_AVAILABLE /\ frame.at = "none"
    /\ frame' = [labeled |-> ConstGrid(Hh(M), Ww(M), 0), current |-> 0,
                 stack |-> None, r |-> 0, c |-> 0, rr |-> None, cc |-> None,
                 dir |-> 0, at |-> "scan"]
    /\ pushed' = ConstGrid(Hh(M), Ww(M), 0)
    /\ UNCHANGED <<pc, labeled, callerVars>>

\* Line 148, test false: the pixel is background or already labeled.
ScanSkip ==
    /\ frame.at = "scan" /\ frame.r < Hh(M)
    /\ ~(Px(M, frame.r, frame.c) /\ Px(frame.labeled, frame.r, frame.c) = 0)
    /\ frame' = ScanNext(frame)
    /\ UNCHANGED <<pc, labeled, pushed, callerVars>>

\* Lines 148-149, test true: a new component starts.
NewComponent ==
    /\ frame.at = "scan" /\ frame.r < Hh(M)
    /\ Px(M, frame.r, frame.c) /\ Px(frame.labeled, frame.r, frame.c) = 0
    /\ frame' = [frame EXCEPT !.current = frame.current + 1, !.at = "seed"]
    /\ UNCHANGED <<pc, labeled, pushed, callerVars>>

\* Line 150: stack = [(r, c)].
SeedStack ==
    /\ frame.at = "seed"
    /\ frame' = [frame EXCEPT !.stack = <<<<frame.r, frame.c>>>>, !.at = "mark"]
    /\ pushed' = CountPush(<<frame.r, frame.c>>)
    /\ UNCHANGED <<pc, labeled, callerVars>>

\* Line 151: labeled[r, c] = current.
SeedLabel ==
    /\ frame.at = "mark"
    /\ frame' = [frame EXCEPT
                    !.labeled = SetPx(frame.labeled, frame.r, frame.c, frame.current),
                    !.at = "while"]
    /\ UNCHANGED <<pc, labeled, pushed, callerVars>>

\* Line 152 with an empty stack: the component is complete, the scan goes on.
WhileExit ==
    /\ frame.at = "while" /\ frame.stack = <<>>
    /\ frame' = ScanNext(frame)
    /\ UNCHANGED <<pc, labeled, pushed, callerVars>>

\* Lines 152-154 with a non-empty stack: rr, cc = stack.pop().
Pop ==
    /\ frame.at = "while" /\ frame.stack # <<>>
    /\ LET top == frame.stack[Len(frame.stack)]
       IN frame' = [frame EXCEPT
                       !.stack = SubSeq(frame.stack, 1, Len(frame.stack) - 1),
                       !.rr = top[1], !.cc = top[2], !.dir = 1, !.at = "offsets"]
    /\ UNCHANGED <<pc, labeled, pushed, callerVars>>

\* Line 154, the list of offsets exhausted: back to the test of line 152.
OffsetsDone ==
    /\ frame.at = "offsets" /\ frame.dir > Len(DIRS)
    /\ frame' = [frame EXCEPT !.at = "while"]
    /\ UNCHANGED <<pc, labeled, pushed, callerVars>>

\* Lines 155-156, test false: the next offset.
NeighbourSkip ==
    /\ frame.at = "offsets" /\ frame.dir <= Len(DIRS)
    /\ ~Unlabeled(M, frame.labeled, Neighbour(frame)[1], Neighbour(frame)[2])
    /\ frame' = [frame EXCEPT !.dir = frame.dir + 1]
    /\ UNCHANGED <<pc, labeled, pushed, callerVars>>

\* Lines 155-157, test true, with line 157 left out: nothing is written.
NeighbourNotLabeled ==
    /\ frame.at = "offsets" /\ frame.dir <= Len(DIRS)
    /\ Unlabeled(M, frame.labeled, Neighbour(frame)[1], Neighbour(frame)[2])
    /\ frame' = [frame EXCEPT !.at = "push"]
    /\ UNCHANGED <<pc, labeled, pushed, callerVars>>

\* Lines 155-157, test true: labeled[nr, nc] = current.
NeighbourLabel ==
    /\ frame.at = "offsets" /\ frame.dir <= Len(DIRS)
    /\ Unlabeled(M, frame.labeled, Neighbour(frame)[1], Neighbour(frame)[2])
    /\ frame' = [frame EXCEPT
                    !.labeled = SetPx(frame.labeled, Neighbour(frame)[1],
                                      Neighbour(frame)[2], frame.current),
                    !.at = "push"]
    /\ UNCHANGED <<pc, labeled, pushed, callerVars>>

\* Line 158: stack.append((nr, nc)), then the next offset.
NeighbourPush ==
    /\ frame.at = "push"
    /\ frame' = [frame EXCEPT !.stack = Append(frame.stack, Neighbour(frame)),
                              !.dir = frame.dir + 1, !.at = "offsets"]
    /\ pushed' = CountPush(Neighbour(frame))
    /\ UNCHANGED <<pc, labeled, callerVars>>

\* The scan of lines 146-147 is over: control is at line 159.
ScanEnded == frame.at = "scan" /\ frame.r = Hh(M)

\* Line 159 and the assignment of line 310: the label map goes to the caller.
FloodReturn ==
    /\ ScanEnded
    /\ labeled' = frame.labeled
    /\ pc' = "labeled"
    /\ frame' = NoFrame
    /\ UNCHANGED <<pushed, callerVars>>

\* The call of line 310 in the NumPy-only build, on any mask of MaskSide
\* rows and three columns.
InitFlood ==
    /\ SCIPY_AVAILABLE = FALSE
    /\ M \in AllMasks
    /\ region_min_area = 0
    /\ pc = "morphed"
    /\ T = None /\ T_frac = 0 /\ gaussian_sigma = 0 /\ grad_pctl = 0 /\ ring_width = 0
    /\ T_s = None /\ G_s = None /\ tau = None /\ M0 = None
    /\ labeled = None /\ M_clean = None /\ labeled_clean = None
    /\ nlab = 0 /\ lab = 0 /\ regions = None /\ ring = None
    /\ regions_sorted = None
    /\ frame = NoFrame /\ pushed = None

NextFlood ==
    \/ FloodEnter
    \/ ScanSkip
    \/ NewComponent
    \/ SeedStack
    \/ SeedLabel
    \/ WhileExit
    \/ Pop
    \/ OffsetsDone
    \/ NeighbourSkip
    \/ NeighbourLabel
    \/ NeighbourPush
    \/ FloodReturn

\* The interpreter runs the one thread of the call on: a statement that can
\* be executed is executed.
SpecFlood == InitFlood /\ [][NextFlood]_vars /\ WF_vars(NextFlood)

\* ------------------------------------------------------------------ claims
\* The 4-connected component of pixel p in mask, by closure under Step4.
ComponentOf(mask, p) == Component(mask, {p})

\* lbl labels the 4-connected components of mask with 1 .. n: false pixels
\* carry 0, true pixels a label of 1 .. n, two true pixels the same label
\* exactly when one is in the component of the other, and n is the number of
\* components.
LabelsComponents(mask, lbl, n) ==
    /\ \A p \in Pixels(mask) :
          IF Px(mask, p[1], p[2])
          THEN Px(lbl, p[1], p[2]) \in 1 .. n
          ELSE Px(lbl, p[1], p[2]) = 0
    /\ \A p \in TruePixels(mask) :
          LET joined == ComponentOf(mask, p)
          IN \A q \in TruePixels(mask) :
                (Px(lbl, p[1], p[2]) = Px(lbl, q[1], q[2])) <=> (q \in joined)
    /\ n = Cardinality({ComponentOf(mask, p) : p \in TruePixels(mask)})

\* C1: label_components gives every false pixel the label 0 and every true
\* pixel a positive label, two true pixels the same label exactly when a
\* path of 4-adjacent true pixels joins them, and returns as count the number
\* of components: so for the first labeling (line 310) and for the second
\* (line 312).
C1_LabelPartition ==
    /\ pc = "labeled" =>
          LET result == label_components(M)
          IN /\ labeled = result[1]
             /\ LabelsComponents(M, labeled, result[2])
    /\ pc = "relabeled" => LabelsComponents(M_clean, labeled_clean, nlab)

\* A labeled mask with two components, one of them bent, so that adjacency
\* along a diagonal and along every direction matters.
C1_Witness ==
    /\ pc = "labeled"
    /\ Cardinality(PositiveLabels(labeled)) = 2
    /\ \E p \in TruePixels(M) : \E q \in TruePixels(M) :
          /\ q = <<p[1] + 1, p[2] + 1>>
          /\ Px(labeled, p[1], p[2]) # Px(labeled, q[1], q[2])
    /\ \E p \in TruePixels(M) :
          /\ <<p[1] + 1, p[2]>> \in ComponentOf(M, p)
          /\ <<p[1] + 1, p[2] - 1>> \in ComponentOf(M, p)
          /\ ~Px(M, p[1], p[2] - 1)

\* C2: remove_small_components keeps a pixel exactly when its label is
\* positive and the number of pixels carrying that label is at least the
\* minimum area; a component is kept or removed as a whole, and no pixel that
\* was background becomes true.
C2_FilterIff ==
    pc = "filtered" =>
        \A p \in Pixels(labeled) :
            Px(M_clean, p[1], p[2]) <=>
                /\ Px(labeled, p[1], p[2]) > 0
                /\ Cardinality({q \in Pixels(labeled) :
                       Px(labeled, q[1], q[2]) = Px(labeled, p[1], p[2])})
                      >= region_min_area

\* A filtered mask with a component of exactly the minimum area, kept, next
\* to a smaller one, removed.
C2_Witness ==
    /\ pc = "filtered"
    /\ \E k \in PositiveLabels(labeled) : \E d \in PositiveLabels(labeled) :
          /\ Cardinality(PixelsOf(labeled, k)) = region_min_area
          /\ Cardinality(PixelsOf(labeled, d)) < region_min_area
          /\ \A p \in PixelsOf(labeled, k) : Px(M_clean, p[1], p[2])
          /\ \A p \in PixelsOf(labeled, d) : ~Px(M_clean, p[1], p[2])

\* C4: filtering is idempotent through re-labeling: the filtered mask,
\* labeled again and filtered again with the same minimum area, is the
\* filtered mask pixel for pixel.
C4_FilterIdempotent ==
    pc = "relabeled" =>
        remove_small_components(labeled_clean, region_min_area) = M_clean

\* A first filtering that removed a component and kept two, which the second
\* labeling numbers anew.
C4_Witness ==
    /\ pc = "relabeled"
    /\ nlab = 2
    /\ Cardinality(PositiveLabels(labeled)) = 3
    /\ labeled_clean # labeled
    /\ \E p \in TruePixels(M_clean) :
          Px(labeled_clean, p[1], p[2]) # Px(labeled, p[1], p[2])

\* A control parameter lies outside the domain the specification gives it.
InvalidParameter ==
    \/ gaussian_sigma <= 0
    \/ grad_pctl < 0 \/ grad_pctl > 100
    \/ region_min_area < 0
    \/ ring_width < 0

ValidParameters == ~InvalidParameter

\* C3: the second labeling is dense: the positive labels of labeled_clean
\* are exactly 1 .. nlab, so every label the loop visits has pixels, the loop
\* emits one record per label, in all nlab records with pairwise distinct IDs.
C3_DenseLabels ==
    pc \in {"relabeled", "done"} =>
        /\ PositiveLabels(labeled_clean) = 1 .. nlab
        /\ \A l \in 1 .. nlab : PixelsOf(labeled_clean, l) # {}
        /\ Len(regions) = lab - 1
        /\ \A i \in 1 .. Len(regions) : regions[i].ID = i
        /\ pc = "done" =>
              /\ Len(regions_sorted) = nlab
              /\ \A i \in 1 .. nlab : \A j \in 1 .. nlab :
                    i # j => regions_sorted[i].ID # regions_sorted[j].ID

\* A finished run of a valid call in which the filter removed a component
\* and kept another, which the second labeling numbered anew.
C3_Witness ==
    /\ pc = "done"
    /\ ValidParameters
    /\ nlab >= 1
    /\ Cardinality(PositiveLabels(labeled)) > nlab
    /\ \E p \in TruePixels(M_clean) :
          Px(labeled_clean, p[1], p[2]) # Px(labeled, p[1], p[2])

\* C5: the returned sequence is ranked hottest first: of two adjacent
\* records the earlier has the greater Tmax, or the same Tmax and a DeltaT at
\* least as large; and it holds the analysed records, each once.
C5_Ranked ==
    pc = "done" =>
        /\ \A i \in 1 .. Len(regions_sorted) - 1 :
              \/ regions_sorted[i].Tmax_C > regions_sorted[i + 1].Tmax_C
              \/ /\ regions_sorted[i].Tmax_C = regions_sorted[i + 1].Tmax_C
                 /\ regions_sorted[i].DeltaT_C >= regions_sorted[i + 1].DeltaT_C
        /\ Len(regions_sorted) = Len(regions)
        /\ \A i \in 1 .. Len(regions) :
              Cardinality({j \in 1 .. Len(regions_sorted) :
                              regions_sorted[j] = regions[i]})
                = Cardinality({j \in 1 .. Len(regions) : regions[j] = regions[i]})

\* A finished run whose records came out of the loop in another order than
\* the ranked one, two of them with the same Tmax and different DeltaT.
C5_Witness ==
    /\ pc = "done"
    /\ ValidParameters
    /\ Len(regions) >= 2
    /\ regions_sorted # regions
    /\ \E i \in 1 .. Len(regions) : \E j \in 1 .. Len(regions) :
          /\ i < j
          /\ regions[i].Tmax_C = regions[j].Tmax_C
          /\ regions[i].DeltaT_C < regions[j].DeltaT_C

\* C6: for every record a valid call returns, Tmax is the maximum of the
\* unsmoothed grid T over the pixels that carry the record's label in
\* labeled_clean, Tmax is at least Tmean, (row, col) is one of those pixels
\* and T[row, col] = Tmax.
C6_TmaxLocation ==
    pc = "done" /\ ValidParameters =>
        \A i \in 1 .. Len(regions_sorted) :
            LET rec == regions_sorted[i]
                coords == PixelsOf(labeled_clean, rec.ID)
            IN /\ coords # {}
               /\ \E p \in coords : Px(T, p[1], p[2]) = rec.Tmax_C
               /\ \A p \in coords : Px(T, p[1], p[2]) <= rec.Tmax_C
               /\ MeanLeq(rec.Tmean_C.sum, rec.Tmean_C.n,
                          [w |-> rec.Tmax_C, u |-> 4 * T_frac])
               /\ <<rec.row, rec.col>> \in coords
               /\ Px(T, rec.row, rec.col) = rec.Tmax_C

\* The ring the specification describes for label l: the region's mask
\* dilated by a disk of the given radius, without the region itself.
DiskRing(lbl, l, radius) ==
    TruePixels(NdiDilation(MaskOf(lbl, l), Disk(radius))) \ PixelsOf(lbl, l)

\* C7: for every analysed region the ring is the region's mask dilated by a
\* disk of radius ring_width minus the region's own mask; Tbg is the median
\* of T over the ring if the ring is not empty, else the median over the
\* pixels outside the region if there are any, else the median of the whole
\* grid; and DeltaT = Tmax - Tbg.  Stated for the region the loop analysed
\* last, in a call with valid parameters.
C7_RingBackground ==
    pc = "relabeled" /\ lab > 1 /\ ValidParameters
    => LET rec == regions[lab - 1]
           region == PixelsOf(labeled_clean, lab - 1)
           expected == DiskRing(labeled_clean, lab - 1, ring_width)
           outside == Pixels(T) \ region
       IN /\ TruePixels(ring) = expected
          /\ TruePixels(ring) \cap region = {}
          /\ rec.Tbg_C = IF expected # {} THEN Median(T, expected)
                         ELSE IF outside # {} THEN Median(T, outside)
                         ELSE Median(T, Pixels(T))
          /\ rec.DeltaT_C = rec.Tmax_C - rec.Tbg_C

\* The false pixels of mask that no path of false pixels joins to the border.
Holes(mask) == TruePixels(Not(mask)) \ OpenBackground(mask)

\* C8: the mask binary_morphology returns has no hole, every false pixel of
\* it being joined to the grid border by a path of false pixels, and it
\* contains the input closed with a disk of radius 2 and dilated with a disk
\* of radius 1.
C8_NoHoles ==
    pc = "morphed" =>
        /\ Holes(M) = {}
        /\ TruePixels(NdiDilation(NdiClosing(M0, Disk(2)), Disk(1)))
              \subseteq TruePixels(M)

\* C9: a call with a control parameter outside its domain ends in an
\* InvalidParameter error before any stage has run: it never leaves the
\* start for a stage, and returns nothing.
C9_InvalidRejected ==
    InvalidParameter =>
        /\ pc \in {"start", "InvalidParameter"}
        /\ T_s = None
        /\ regions_sorted = None

\* Every cell of the grid holds the same temperature.
Uniform(g) == \A p \in Pixels(g) : Px(g, p[1], p[2]) = Px(g, 0, 0)

\* C10: on a uniform grid and with valid parameters, whatever the
\* percentile, the gradient magnitude is zero everywhere, tau is that
\* common value, the candidate mask is G_s >= tau, and the call returns no
\* region.
C10_UniformNoRegion ==
    Uniform(T) /\ ValidParameters =>
        /\ pc \in {"thresholded", "morphed", "labeled", "filtered",
                  "relabeled", "done"} =>
              /\ tau.lo = tau.hi
              /\ SCIPY_AVAILABLE =>
                    /\ \A p \in Pixels(G_s) : Px(G_s, p[1], p[2]) = tau.lo
                    /\ tau.lo = 0
              /\ M0 = Threshold(G_s, tau)
        /\ pc = "done" => regions_sorted = <<>>

\* label_components is running or has returned: pushed is a grid of counts.
FloodStarted == frame.at # "none" \/ pc = "labeled"

\* The step puts pixel p on the stack.
Pushes(p) == Px(pushed', p[1], p[2]) > Px(pushed, p[1], p[2])

\* In every state of a run of the flood fill: no pixel has been put on the
\* stack more than once, no false pixel has been put on it at all, and when
\* the scan has ended the stack is empty and every true pixel has a label.
FloodState ==
    /\ FloodStarted =>
          \A p \in Pixels(M) :
              /\ Px(pushed, p[1], p[2]) <= 1
              /\ ~Px(M, p[1], p[2]) => Px(pushed, p[1], p[2]) = 0
    /\ ScanEnded =>
          /\ frame.stack = <<>>
          /\ \A p \in TruePixels(M) : Px(frame.labeled, p[1], p[2]) # 0
    /\ pc = "labeled" =>
          \A p \in TruePixels(M) : Px(labeled, p[1], p[2]) # 0

\* A step of the flood fill leaves every label already written as it is.
LabelsKept ==
    frame.at # "none" /\ frame'.at # "none" =>
        \A p \in Pixels(M) :
            Px(frame.labeled, p[1], p[2]) # 0 =>
                Px(frame'.labeled, p[1], p[2]) = Px(frame.labeled, p[1], p[2])

\* stack.append (line 158) is handed a pixel that line 157 has labeled; the
\* only other way onto the stack is line 150, which creates the stack around
\* the seed (r, c) of a new component, a pixel without a label until the next
\* statement, line 151.
LabeledThenPushed ==
    frame.at # "none" =>
        \A p \in Pixels(M) :
            Pushes(p) =>
                \/ /\ frame.at = "push"
                   /\ Px(frame.labeled, p[1], p[2]) = frame.current
                \/ /\ frame.at = "seed" /\ p = <<frame.r, frame.c>>
                   /\ Px(frame.labeled, p[1], p[2]) = 0

\* Whenever the test of line 152 or the loop of lines 154-158 is reached,
\* every pixel on the stack carries the label of the component being filled.
StackLabeled ==
    frame.at \in {"while", "offsets", "push"} =>
        \A i \in 1 .. Len(frame.stack) :
            Px(frame.labeled, frame.stack[i][1], frame.stack[i][2]) = frame.current

=============================================================================
